---- MODULE Spec2Model ----
(***************************************************************************)
(* ChillTUI: the render/input loop of src/ui/mod.rs (App), its panel state *)
(* machine, and the background workers (search, upload, dismiss timer)     *)
(* that hand their outcomes back through the two mutex-guarded mailboxes   *)
(* search_results and send_complete.                                       *)
(*                                                                         *)
(* History variables record what the claims speak about and the program    *)
(* does not store: which worker wrote and which outcome was taken          *)
(* (search_log, upload_log), which restoration steps run() reached         *)
(* (restore_attempted), the key handled by the latest event step           *)
(* (last_key, forgotten at the next frame), how many keys and how many of  *)
(* them Esc were handled (keys_handled, esc_presses) and the current run   *)
(* of Tab/BackTab presses (nav_hist, forgotten when anything else moves or *)
(* may move focus).                                                        *)
(*                                                                         *)
(* The animation counters (frame_counter, marquee, title scroll, spinner)  *)
(* are written by the loop and read only by the renderer, so they do not   *)
(* influence any other variable.  Spec leaves the animation step of the    *)
(* loop out (Draw hands over to the event step); ScrollSpec runs the loop  *)
(* with it, frame by frame, from a state in which a search has completed.  *)
(* FilterSpec starts the loop with focus on Filters and the cursor on any  *)
(* row; MarqueeSpec exercises MarqueeCache on its own.                     *)
(***************************************************************************)
EXTENDS Integers, Sequences, FiniteSets, TLC

\* ---------------------------------------------------------------- bounds
\* total number of search workers spawned in one run
MaxSearches == 2
\* total number of upload workers spawned in one run
MaxUploads == 2
\* longest query the user types
MaxQueryLen == 1
\* number of key events handled in one run
MaxKeys == 4
\* longest run of Tab presses the history records
MaxNavRun == 4
\* number of frames ScrollSpec runs the loop for
MaxFrames == 4
\* longest marquee text MarqueeSpec builds a MarqueeCache from
MaxBanner == 4
\* widest marquee MarqueeSpec renders
MaxRenderWidth == 6
\* widest terminal LayoutSpec draws on
MaxTermWidth == 100
\* longest provider answer SortSpec post-processes
MaxResponse == 3

\* ------------------------------------------------------ program constants
MARGIN_X == 1
MARGIN_Y == 1
STATUS_BAR_LINES == 3
HEADER_HEIGHT == 3
RESULTS_X_OFFSET == 23

\* the rows of the Filters panel: 3 sort options, the indexers,
\* 4 minimum-seeder options, 2 adult-filter options.  The program lists
\* "all" and eight indexers; the model keeps "all" and the first two.
available_indexers == <<"all", "1337x", "EZTV">>
min_seed_options == <<0, 5, 10, 100>>

Panels == {"Search", "Filters", "Results"}

\* ------------------------------------------------------------ environment
\* characters the user can type (KeyCode::Char); " " is the space bar
KeyChars == {"a", " "}
SpecialKeys == {"Esc", "Tab", "BackTab", "Enter", "Up", "Down", "Left",
                "Right", "Backspace", "Other"}
Keys == SpecialKeys \cup KeyChars

\* terminal sizes terminal::size() reports
TermSizes == {<<80, 8>>}

\* what the search provider can answer: titles are code-point sequences
E1 == [title |-> <<98>>, size |-> 100, seeders |-> 50,  magnet |-> "m1", selected |-> FALSE]
E2 == [title |-> <<97>>, size |-> 50,  seeders |-> 200, magnet |-> "m2", selected |-> FALSE]
E3 == [title |-> <<66>>, size |-> 10,  seeders |-> 2,   magnet |-> "m3", selected |-> FALSE]
Responses == {<< >>, <<E1>>, <<E3, E1, E2>>}
\* two more entries: E4 ties with E1 on seeders and title and with E2 on
\* size, E5 has a title of which E2's is a prefix
E4 == [title |-> <<98>>, size |-> 50,  seeders |-> 50,  magnet |-> "m4", selected |-> FALSE]
E5 == [title |-> <<97, 66>>, size |-> 100, seeders |-> 200, magnet |-> "m5", selected |-> FALSE]
SortModes == {"Seeders", "Name", "Size"}

\* ------------------------------------------------------------- variables
VARIABLES
    \* App::run / App::main_loop
    pc, raw_mode, alt_screen, cursor_hidden, loop_result, run_result,
    \* Config / clients
    chill_client, putio_client, putio_folder_id,
    \* App fields
    query, results, selected_index, scroll_offset, active_panel,
    selected_indexers, sort_by, sort_cursor, min_seeds, filter_nsfw,
    searching, status_message, sending_to_putio, sending_complete,
    sent_file_name, cached_width, cached_height, layout_cache,
    title_scroll_offset, title_scroll_direction, frame_counter,
    spinner_frame, should_animate, marquee_cache,
    \* the two mailboxes
    search_results, send_complete,
    \* detached threads
    search_workers, upload_workers, timers,
    \* history (not program state)
    next_ticket, next_upload, search_log, upload_log, restore_attempted,
    keys_handled, esc_presses, nav_hist, last_key, frames, marquee_hist

termVars == <<raw_mode, alt_screen, cursor_hidden, loop_result, run_result, restore_attempted>>
runVars == <<pc, termVars>>
cfgVars == <<chill_client, putio_client, putio_folder_id>>
filterVars == <<selected_indexers, sort_by, sort_cursor, min_seeds, filter_nsfw>>
resultVars == <<results, selected_index, scroll_offset>>
sizeVars == <<cached_width, cached_height, layout_cache>>
sendVars == <<sending_to_putio, sending_complete, sent_file_name>>
searchJobVars == <<search_results, search_workers, next_ticket, search_log>>
uploadJobVars == <<send_complete, upload_workers, timers, next_upload, upload_log>>
scrollVars == <<title_scroll_offset, title_scroll_direction>>
animVars == <<scrollVars, frame_counter, spinner_frame, should_animate, marquee_cache>>
appVars == <<query, active_panel, searching, status_message, filterVars,
             resultVars, sizeVars, sendVars, animVars>>
animHist == <<frames, marquee_hist>>
keyCount == <<keys_handled, esc_presses>>
histVars == <<keyCount, nav_hist, last_key, animHist>>
vars == <<runVars, cfgVars, appVars, searchJobVars, uploadJobVars, histVars>>

\* --------------------------------------------------------------- helpers
SatSub(a, b) == IF a > b THEN a - b ELSE 0
Contains(s, x) == \E i \in 1..Len(s) : s[i] = x
Retain(s, x) == SelectSeq(s, LAMBDA y : y # x)

Status(glyph, text, n) == [glyph |-> glyph, text |-> text, n |-> n]
NoFile == [phase |-> "", count |-> 0, title |-> << >>]

\* a LayoutCache::new whose title width is a plain subtraction
LayoutCacheNewUnsaturated(term_width, term_height, results_x) ==
    LET right_border_col == SatSub(term_width, MARGIN_X + 1)
        source_start == SatSub(right_border_col, 10)
        seeds_end == SatSub(source_start, 3)
        seeds_start == SatSub(seeds_end, 5)
        size_end == SatSub(seeds_start, 3)
        size_start == SatSub(size_end, 12)
        sep_pos == SatSub(size_start, 3)
    IN  [title_width |-> sep_pos - (results_x + 2 + 3 + 3 + 3),
         size_column |-> size_start % 65536,
         seeds_column |-> seeds_start % 65536,
         source_column |-> source_start % 65536,
         separator_column |-> sep_pos % 65536,
         right_border_column |-> right_border_col,
         terminal_width |-> term_width,
         terminal_height |-> term_height]

\* a LayoutCache::new with a two-cell gutter between seeders and source
LayoutCacheNewTightGutter(term_width, term_height, results_x) ==
    LET right_border_col == SatSub(term_width, MARGIN_X + 1)
        source_start == SatSub(right_border_col, 10)
        seeds_end == SatSub(source_start, 2)
        seeds_start == SatSub(seeds_end, 5)
        size_end == SatSub(seeds_start, 3)
        size_start == SatSub(size_end, 12)
        sep_pos == SatSub(size_start, 3)
    IN  [title_width |-> SatSub(sep_pos, results_x + 2 + 3 + 3 + 3),
         size_column |-> size_start % 65536,
         seeds_column |-> seeds_start % 65536,
         source_column |-> source_start % 65536,
         separator_column |-> sep_pos % 65536,
         right_border_column |-> right_border_col,
         terminal_width |-> term_width,
         terminal_height |-> term_height]

\* LayoutCache::new
LayoutCacheNew(term_width, term_height, results_x) ==
    LET right_border_col == SatSub(term_width, MARGIN_X + 1)
        source_start == SatSub(right_border_col, 10)
        seeds_end == SatSub(source_start, 3)
        seeds_start == SatSub(seeds_end, 5)
        size_end == SatSub(seeds_start, 3)
        size_start == SatSub(size_end, 12)
        sep_pos == SatSub(size_start, 3)
    IN  [title_width |-> SatSub(sep_pos, results_x + 2 + 3 + 3 + 3),
         size_column |-> size_start % 65536,
         seeds_column |-> seeds_start % 65536,
         source_column |-> source_start % 65536,
         separator_column |-> sep_pos % 65536,
         right_border_column |-> right_border_col,
         terminal_width |-> term_width,
         terminal_height |-> term_height]

\* the text App::new builds the marquee from; the model keeps its first
\* four characters
banner == <<"+", "+", "+", " ">>

\* MarqueeCache::new
MarqueeCacheNew(text) == [chars |-> text, offset |-> 0]

\* ------------------------------------------------------------------ Init
\* App::new, before run() is called
NewSearchLog == [t \in 1..MaxSearches |-> [state |-> "unspawned", writes |-> 0, taken |-> 0, lost |-> FALSE]]
NewUploadLog == [u \in 1..MaxUploads |-> [state |-> "unspawned", writes |-> 0, failed |-> FALSE]]
NoNav == [keys |-> << >>, panels |-> << >>]
NoKey == [key |-> "none", panel |-> "none"]
NoMarqueeHist == [start |-> 0, steps |-> 0, panicked |-> FALSE, rendered |-> << >>]

Init ==
    /\ pc = "enable_raw"
    /\ raw_mode = FALSE /\ alt_screen = FALSE /\ cursor_hidden = FALSE
    /\ loop_result = "none" /\ run_result = "none" /\ restore_attempted = {}
    /\ chill_client \in BOOLEAN
    /\ putio_client \in BOOLEAN
    /\ putio_folder_id \in BOOLEAN
    /\ query = << >>
    /\ results = << >>
    /\ selected_index = 0 /\ scroll_offset = 0
    /\ active_panel = "Search"
    /\ selected_indexers = <<"all">>
    /\ sort_by = "Seeders" /\ sort_cursor = 0
    /\ min_seeds = 10 /\ filter_nsfw = TRUE
    /\ searching = FALSE
    /\ status_message = Status("none", "Ready", 0)
    /\ sending_to_putio = FALSE /\ sending_complete = FALSE
    /\ sent_file_name = NoFile
    /\ cached_width = 0 /\ cached_height = 0 /\ layout_cache = << >>
    /\ search_results = << >>
    /\ send_complete = FALSE
    /\ search_workers = {} /\ upload_workers = {} /\ timers = 0
    /\ next_ticket = 1 /\ next_upload = 1
    /\ search_log = NewSearchLog /\ upload_log = NewUploadLog
    /\ keys_handled = 0 /\ esc_presses = 0
    /\ nav_hist = NoNav /\ last_key = NoKey
    /\ title_scroll_offset = 0 /\ title_scroll_direction = 1
    /\ frame_counter = 0 /\ spinner_frame = 0 /\ should_animate = TRUE
    /\ marquee_cache = MarqueeCacheNew(banner)
    /\ frames = 0 /\ marquee_hist = NoMarqueeHist

\* ------------------------------------------------------------- App::run
\* terminal::enable_raw_mode()?
EnableRaw ==
    /\ pc = "enable_raw"
    /\ \/ /\ raw_mode' = TRUE /\ pc' = "enter_alt" /\ run_result' = run_result
       \/ /\ raw_mode' = raw_mode /\ pc' = "returned" /\ run_result' = "err"
    /\ UNCHANGED <<alt_screen, cursor_hidden, loop_result, restore_attempted>>
    /\ UNCHANGED <<cfgVars, appVars, searchJobVars, uploadJobVars, histVars>>

\* execute!(stdout, EnterAlternateScreen, cursor::Hide)?  The commands are
\* written in order; a failure stops at any point and returns at once.
EnterAlt ==
    /\ pc = "enter_alt"
    /\ \/ /\ alt_screen' = TRUE /\ cursor_hidden' = TRUE
          /\ pc' = "check_search" /\ run_result' = run_result
       \/ /\ \E done \in 0..2 :
                /\ alt_screen' = (done >= 1)
                /\ cursor_hidden' = (done >= 2)
          /\ pc' = "returned" /\ run_result' = "err"
    /\ UNCHANGED <<raw_mode, loop_result, restore_attempted>>
    /\ UNCHANGED <<cfgVars, appVars, searchJobVars, uploadJobVars, histVars>>

\* execute!(stdout, LeaveAlternateScreen, cursor::Show)?
LeaveAlt ==
    /\ pc = "leave_alt"
    /\ restore_attempted' = restore_attempted \cup {"leave_alt"}
    /\ \/ /\ alt_screen' = FALSE /\ cursor_hidden' = FALSE
          /\ pc' = "disable_raw" /\ run_result' = run_result
       \/ /\ \E done \in 0..2 :
                /\ alt_screen' = (alt_screen /\ done < 1)
                /\ cursor_hidden' = (cursor_hidden /\ done < 2)
          /\ pc' = "returned" /\ run_result' = "err"
    /\ UNCHANGED <<raw_mode, loop_result>>
    /\ UNCHANGED <<cfgVars, appVars, searchJobVars, uploadJobVars, histVars>>

\* terminal::disable_raw_mode()?; result
DisableRaw ==
    /\ pc = "disable_raw"
    /\ restore_attempted' = restore_attempted \cup {"disable_raw"}
    /\ \/ /\ raw_mode' = FALSE /\ run_result' = loop_result
       \/ /\ raw_mode' = raw_mode /\ run_result' = "err"
    /\ pc' = "returned"
    /\ UNCHANGED <<alt_screen, cursor_hidden, loop_result>>
    /\ UNCHANGED <<cfgVars, appVars, searchJobVars, uploadJobVars, histVars>>

\* ------------------------------------------------- search post-processing
\* String::cmp on the raw title: lexicographic by code point
RECURSIVE LexLess(_, _)
LexLess(a, b) ==
    IF b = << >> THEN FALSE
    ELSE IF a = << >> THEN TRUE
    ELSE IF a[1] # b[1] THEN a[1] < b[1]
    ELSE LexLess(Tail(a), Tail(b))

\* ASCII upper case to lower case
FoldCase(t) == [i \in 1..Len(t) |-> IF t[i] \in 65..90 THEN t[i] + 32 ELSE t[i]]

\* a comparator that folds case when sorting by name
BeforeFoldsCase(mode, x, y) ==
    CASE mode = "Seeders" -> x.seeders > y.seeders
      [] mode = "Size"    -> x.size > y.size
      [] mode = "Name"    -> LexLess(FoldCase(x.title), FoldCase(y.title))

\* the comparator chosen by sort_by: TRUE when x must come before y
Before(mode, x, y) ==
    CASE mode = "Seeders" -> x.seeders > y.seeders
      [] mode = "Size"    -> x.size > y.size
      [] mode = "Name"    -> LexLess(x.title, y.title)

\* Vec::sort_by is a stable sort
RECURSIVE InsertStable(_, _, _)
InsertStable(mode, sorted, x) ==
    IF sorted = << >> THEN <<x>>
    ELSE IF Before(mode, x, sorted[1]) THEN <<x>> \o sorted
    ELSE <<sorted[1]>> \o InsertStable(mode, Tail(sorted), x)

RECURSIVE SortResults(_, _)
SortResults(mode, list) ==
    IF list = << >> THEN << >>
    ELSE InsertStable(mode, SortResults(mode, SubSeq(list, 1, Len(list) - 1)),
                      list[Len(list)])

\* results.retain(|r| r.seeders >= min_seeds), only when min_seeds > 0
FilterMinSeeds(min, list) ==
    IF min > 0 THEN SelectSeq(list, LAMBDA r : r.seeders >= min) ELSE list

\* a closure that reads the App's sort mode and threshold when it runs
ProcessResultsLive(w, list) == SortResults(sort_by, FilterMinSeeds(min_seeds, list))

\* the closure passed to search_result.map
ProcessResults(w, list) == SortResults(w.sort_by, FilterMinSeeds(w.min_seeds, list))

\* map_indexer: display name to API name
MapIndexer(name) ==
    CASE name = "TPB" -> "thepiratebay"
      [] name = "EZTV" -> "eztv"
      [] name = "RUtracker" -> "rutracker"
      [] name = "RARBG" -> "therarbg"
      [] name = "YTS" -> "yts"
      [] OTHER -> name

MapAll(s) == [i \in 1..Len(s) |-> MapIndexer(s[i])]

\* the indexer list handed to the worker
WorkerIndexers(sel) ==
    IF Contains(sel, "all")
    THEN MapAll(SelectSeq(available_indexers, LAMBDA i : i # "all"))
    ELSE MapAll(sel)

\* --------------------------------------------------------- key history
AllTab(ks) == \A i \in 1..Len(ks) : ks[i] = "Tab"

\* record a Tab/BackTab press made with focus on panel p: a run of Tab
\* presses is kept up to MaxNavRun, otherwise the last two presses are kept
NavPush(h, k, p) ==
    IF k = "Tab" /\ AllTab(h.keys) /\ Len(h.keys) < MaxNavRun
    THEN [keys |-> Append(h.keys, k), panels |-> Append(h.panels, p)]
    ELSE IF h.keys # << >>
    THEN [keys |-> <<h.keys[Len(h.keys)], k>>,
          panels |-> <<h.panels[Len(h.panels)], p>>]
    ELSE [keys |-> <<k>>, panels |-> <<p>>]

\* ------------------------------------------------------ App::main_loop
LoopFails ==
    /\ loop_result' = "err"
    /\ pc' = "leave_alt"

\* a success arm that leaves the focus where it is
FocusStays(p) == p

\* self.active_panel = Panel::Results, whatever panel p had the focus
FocusAfterSearch(p) == "Results"

\* "Check for completed search results"
CheckSearch ==
    /\ pc = "check_search"
    /\ pc' = "check_send"
    /\ last_key' = NoKey
    /\ IF searching /\ search_results # << >>
       THEN LET result == search_results[1] IN
            /\ search_results' = << >>
            /\ search_log' = [search_log EXCEPT ![result.ticket].taken = @ + 1]
            /\ searching' = FALSE
            /\ IF result.ok
               THEN /\ results' = result.results
                    /\ selected_index' = 0
                    /\ scroll_offset' = 0
                    /\ active_panel' = FocusAfterSearch(active_panel)
                    /\ status_message' = Status("ok", "Found results", Len(result.results))
                    /\ should_animate' = TRUE
                    /\ nav_hist' = NoNav
               ELSE /\ status_message' = Status("fail", "Search error", 0)
                    /\ UNCHANGED <<resultVars, active_panel, should_animate, nav_hist>>
       ELSE UNCHANGED <<search_results, search_log, searching, resultVars,
                        active_panel, status_message, should_animate, nav_hist>>
    /\ UNCHANGED <<termVars, cfgVars, query, filterVars, sizeVars, sendVars,
                   scrollVars, frame_counter, spinner_frame, marquee_cache,
                   search_workers, next_ticket, uploadJobVars, keyCount,
                   animHist>>

\* "Sending ... to Put.io" becomes "Sent ... to Put.io!"
SentName(msg) == [msg EXCEPT !.phase = "Sent"]

\* "Check for completed send to Put.io": marks the upload complete and
\* spawns the dismiss timer
CheckSend ==
    /\ pc = "check_send"
    /\ pc' = "check_close"
    /\ IF sending_to_putio /\ ~sending_complete /\ send_complete
       THEN /\ sending_complete' = TRUE
            /\ sent_file_name' = SentName(sent_file_name)
            /\ timers' = timers + 1
       ELSE UNCHANGED <<sending_complete, sent_file_name, timers>>
    /\ UNCHANGED <<termVars, cfgVars, query, active_panel, searching,
                   status_message, filterVars, resultVars, sizeVars, animVars,
                   sending_to_putio, searchJobVars, send_complete,
                   upload_workers, next_upload, upload_log, histVars>>

\* "Check if we should close the sending dialog"
CheckClose ==
    /\ pc = "check_close"
    /\ pc' = "draw"
    /\ IF sending_to_putio /\ sending_complete /\ ~send_complete
       THEN /\ sending_to_putio' = FALSE
            /\ sending_complete' = FALSE
            /\ active_panel' = "Results"
            /\ nav_hist' = NoNav
       ELSE UNCHANGED <<sending_to_putio, sending_complete, active_panel, nav_hist>>
    /\ UNCHANGED <<termVars, cfgVars, query, searching, status_message,
                   filterVars, resultVars, sizeVars, sent_file_name, animVars,
                   searchJobVars, uploadJobVars, keyCount, last_key,
                   animHist>>

\* draw's content area: the terminal size less the margins, saturating
ContentSize(term, margin) == SatSub(term, margin * 2)

\* draw_results_panel's results_height, the rows of the list a frame
\* shows: height is draw's content_height, y is HEADER_HEIGHT + y_offset
DrawnRows(term_height) ==
    SatSub(ContentSize(term_height, MARGIN_Y),
           (HEADER_HEIGHT + MARGIN_Y) + STATUS_BAR_LINES + 2)

\* the differences a frame takes with a plain `-` on unsigned integers,
\* in the order the frame takes them; each is the value before any
\* wrap.  (The other plain differences of the frame are no smaller than
\* one of these.)
FrameDifferences(term_width, term_height) ==
    LET content_width  == ContentSize(term_width, MARGIN_X)
        content_height == ContentSize(term_height, MARGIN_Y)
        y_offset       == MARGIN_Y
        y              == HEADER_HEIGHT + y_offset
    IN  << content_width - 2,                                   \* 453, 509
           content_height + y_offset - STATUS_BAR_LINES - y,    \* 532
           content_height - STATUS_BAR_LINES - 2,               \* 432
           Len(results) - scroll_offset,                        \* 767
           term_width - MARGIN_X - 1 >>                         \* 795, 1146

\* one of the frame's plain differences is below zero: a panic in a build
\* with overflow checks, a wrapped value in a build without
DrawUnderflows(term_width, term_height) ==
    \E i \in 1..Len(FrameDifferences(term_width, term_height)) :
        FrameDifferences(term_width, term_height)[i] < 0

\* &self.results[self.scroll_offset..visible_end] of the list branch,
\* visible_end computed with the wrapped difference: the slice panics in
\* every build when it starts or ends past the list
SliceOutOfRange ==
    /\ ~searching /\ ~sending_to_putio
    /\ Len(results) < scroll_offset

\* self.draw()?: reads the terminal size, refreshes the layout cache on a
\* change, writes the frame.  An I/O error ends the loop with Err; a
\* panic unwinds out of run() with the terminal as it is.  The loop goes
\* on at step next.
DrawOf(next, sizes) ==
    /\ pc = "draw"
    /\ \/ /\ LoopFails
          /\ UNCHANGED <<sizeVars, raw_mode, alt_screen, cursor_hidden,
                         run_result, restore_attempted>>
       \/ \E sz \in sizes :
            /\ cached_width' = sz[1]
            /\ cached_height' = sz[2]
            /\ layout_cache' =
                 IF layout_cache = << >> \/ sz[1] # cached_width \/ sz[2] # cached_height
                 THEN <<LayoutCacheNew(sz[1], sz[2], RESULTS_X_OFFSET + MARGIN_X)>>
                 ELSE layout_cache
            /\ IF SliceOutOfRange
               THEN pc' = "panicked"
               ELSE IF DrawUnderflows(sz[1], sz[2])
                    THEN pc' \in {"panicked", next}
                    ELSE pc' = next
            /\ UNCHANGED termVars
    /\ UNCHANGED <<cfgVars, query, active_panel, searching, status_message,
                   filterVars, resultVars, sendVars, animVars, searchJobVars,
                   uploadJobVars, histVars>>

\* the draw step on the terminal of Spec
DrawTo(next) == DrawOf(next, TermSizes)

\* the draw step of a loop whose animation counters are not followed
Draw == DrawTo("event")

\* the draw step of the loop as written, followed by the animation step
DrawFrame == DrawTo("animate")

\* MarqueeCache::advance; the remainder by chars.len() panics when the
\* buffer is empty
AdvancePanics(m) == Len(m.chars) = 0

\* an advance that forgets to wrap
advanceNoWrap(m) == [m EXCEPT !.offset = m.offset + 1]

\* an advance of two characters
advanceTwice(m) == [m EXCEPT !.offset = (m.offset + 2) % Len(m.chars)]

\* MarqueeCache::advance
advance(m) == [m EXCEPT !.offset = (m.offset + 1) % Len(m.chars)]

\* chars.iter().cycle() from position pos on, .take(n): the iterator starts
\* over when it has yielded the last character
RECURSIVE CycleTake(_, _, _)
CycleTake(chars, pos, n) ==
    IF n = 0 THEN << >>
    ELSE <<chars[pos + 1]>>
         \o CycleTake(chars, IF pos + 1 = Len(chars) THEN 0 ELSE pos + 1, n - 1)

\* a render that stops at the end of the buffer
renderNoCycle(m, width) ==
    IF Len(m.chars) = 0 THEN << >>
    ELSE SubSeq(m.chars, m.offset + 1,
                IF m.offset + width < Len(m.chars) THEN m.offset + width ELSE Len(m.chars))

\* MarqueeCache::render: empty for an empty buffer, otherwise
\* chars.iter().cycle().skip(offset).take(width)
render(m, width) ==
    IF Len(m.chars) = 0 THEN << >>
    ELSE CycleTake(m.chars, m.offset % Len(m.chars), width)

\* "Reverse when we've scrolled enough (arbitrary max scroll)"
TitleScrollMax == 20

\* a turning point one step further out
TitleScrollMaxOneMore == TitleScrollMax + 1

\* the offset at which update_title_scroll turns the direction backward
TitleTurnsAt == TitleScrollMax

\* update_title_scroll
UpdateTitleScroll ==
    /\ marquee_cache' = advance(marquee_cache)
    /\ spinner_frame' = IF searching \/ sending_to_putio
                        THEN (spinner_frame + 1) % 256 ELSE spinner_frame
    /\ IF results = << >>
       THEN UNCHANGED scrollVars
       ELSE IF title_scroll_direction = 1
       THEN /\ title_scroll_offset' = title_scroll_offset + 1
            /\ title_scroll_direction' =
                 IF title_scroll_offset + 1 >= TitleTurnsAt THEN -1
                 ELSE title_scroll_direction
       ELSE IF title_scroll_offset > 0
       THEN /\ title_scroll_offset' = title_scroll_offset - 1
            /\ UNCHANGED title_scroll_direction
       ELSE /\ title_scroll_direction' = 1
            /\ UNCHANGED title_scroll_offset

\* "Only update animations when needed": the frame counter wraps at 256,
\* every frame whose counter is a multiple of 3 is an animation tick
Animate ==
    /\ pc = "animate"
    /\ pc' = "event"
    /\ frames < MaxFrames
    /\ frames' = frames + 1
    /\ IF should_animate
       THEN /\ frame_counter' = (frame_counter + 1) % 256
            /\ IF frame_counter' % 3 = 0
               THEN UpdateTitleScroll
               ELSE UNCHANGED <<marquee_cache, spinner_frame, scrollVars>>
       ELSE UNCHANGED <<frame_counter, marquee_cache, spinner_frame, scrollVars>>
    /\ UNCHANGED <<termVars, cfgVars, query, active_panel, searching,
                   status_message, filterVars, resultVars, sizeVars, sendVars,
                   should_animate, searchJobVars, uploadJobVars,
                   keyCount, nav_hist, last_key, marquee_hist>>

\* ----------------------------------------------------- perform_search
\* what the spawned search thread owns: copies taken at dispatch
SearchWorker(sel) ==
    [ticket |-> next_ticket, query |-> query, min_seeds |-> min_seeds,
     sort_by |-> sort_by, filter_nsfw |-> filter_nsfw,
     indexers |-> WorkerIndexers(sel)]

\* the variables perform_search can write
searchWrites == <<results, searching, status_message, spinner_frame,
                  should_animate, search_workers, next_ticket, search_log>>

\* the early return when the query is empty
QueryBlocksSearch == query = << >>

\* perform_search, with sel the value of selected_indexers at the call
PerformSearch(sel) ==
    IF QueryBlocksSearch
    THEN UNCHANGED searchWrites
    ELSE /\ results' = << >>
         /\ spinner_frame' = 0
         /\ should_animate' = TRUE
         /\ IF chill_client
            THEN /\ next_ticket <= MaxSearches
                 /\ searching' = TRUE
                 /\ status_message' = Status("none", "Fetching results...", 0)
                 /\ search_workers' = search_workers \cup {SearchWorker(sel)}
                 /\ search_log' = [search_log EXCEPT ![next_ticket].state = "running"]
                 /\ next_ticket' = next_ticket + 1
            ELSE /\ searching' = FALSE
                 /\ status_message' = Status("fail", "Chill API key not configured", 0)
                 /\ UNCHANGED <<search_workers, next_ticket, search_log>>

\* ------------------------------------------------------- send_to_putio
Marked == SelectSeq(results, LAMBDA r : r.selected)

\* a choice of items that is always the highlighted one
ItemsHighlighted ==
    IF selected_index < Len(results) THEN <<results[selected_index + 1]>> ELSE << >>

\* "If nothing is explicitly selected, use the currently highlighted item"
ItemsToSend ==
    IF Marked = << >>
    THEN IF selected_index < Len(results) THEN <<results[selected_index + 1]>> ELSE << >>
    ELSE Marked

SendingName(items) ==
    IF Len(items) = 1
    THEN [phase |-> "Sending", count |-> 1, title |-> items[1].title]
    ELSE [phase |-> "Sending", count |-> Len(items), title |-> << >>]

ClearSelections(list) == [i \in 1..Len(list) |-> [list[i] EXCEPT !.selected = FALSE]]

\* what the spawned upload thread owns: copies taken at dispatch, magnets
\* being the ones still to submit.  chosen keeps the magnets as taken and
\* calls the API calls the thread has made, with their outcomes.
UploadWorker(items) ==
    [id |-> next_upload, step |-> "folder", has_folder |-> putio_folder_id,
     magnets |-> [i \in 1..Len(items) |-> items[i].magnet],
     chosen |-> [i \in 1..Len(items) |-> items[i].magnet],
     calls |-> << >>]

\* the variables send_to_putio can write
sendWrites == <<results, status_message, sendVars, should_animate, query,
                active_panel, upload_workers, next_upload, upload_log>>

SendToPutio ==
    LET items == ItemsToSend IN
    IF items = << >>
    THEN /\ status_message' = Status("fail", "No results available", 0)
         /\ UNCHANGED <<results, sendVars, should_animate, query, active_panel,
                        upload_workers, next_upload, upload_log>>
    ELSE /\ sending_to_putio' = TRUE
         /\ sending_complete' = FALSE
         /\ should_animate' = TRUE
         /\ sent_file_name' = SendingName(items)
         /\ query' = << >>
         /\ active_panel' = "Search"
         /\ IF putio_client
            THEN /\ next_upload <= MaxUploads
                 /\ results' = ClearSelections(results)
                 /\ upload_workers' = upload_workers \cup {UploadWorker(items)}
                 /\ upload_log' = [upload_log EXCEPT ![next_upload].state = "running"]
                 /\ next_upload' = next_upload + 1
                 /\ UNCHANGED status_message
            ELSE /\ status_message' = Status("fail", "Put.io not configured", 0)
                 /\ UNCHANGED <<results, upload_workers, next_upload, upload_log>>

\* ---------------------------------------------------------- key handlers
\* a Tab arm that forgets to wrap from Results back to Search
TabPanelNoWrap(p) ==
    CASE p = "Search"  -> "Filters"
      [] p = "Filters" -> "Results"
      [] p = "Results" -> "Results"

\* a Tab arm that only toggles between the search bar and the results
TabPanelSkip(p) ==
    CASE p = "Search"  -> "Results"
      [] p = "Filters" -> "Results"
      [] p = "Results" -> "Search"

\* the Tab arm of handle_key
TabPanel(p) ==
    CASE p = "Search"  -> "Filters"
      [] p = "Filters" -> "Results"
      [] p = "Results" -> "Search"

\* a BackTab arm pasted from the Tab arm
BackTabPanelForward(p) ==
    CASE p = "Search"  -> "Filters"
      [] p = "Filters" -> "Results"
      [] p = "Results" -> "Search"

\* the BackTab arm of handle_key
BackTabPanel(p) ==
    CASE p = "Search"  -> "Results"
      [] p = "Filters" -> "Search"
      [] p = "Results" -> "Filters"

SwitchedTo(p) ==
    CASE p = "Search"  -> Status("none", "Switched to Search panel", 0)
      [] p = "Filters" -> Status("none", "Switched to Filters panel", 0)
      [] p = "Results" -> Status("none", "Switched to Results panel", 0)

\* a Down arm that does not look at the result list
SearchDownPanelFilters == "Filters"

\* where the Down arm of handle_search_key moves focus
SearchDownPanel == IF results # << >> THEN "Results" ELSE "Filters"

\* a handle_search_key whose Up arm moves focus like its Down arm
SearchKeyPanelUpDown(k) == IF k \in {"Up", "Down"} THEN SearchDownPanel ELSE active_panel

\* where handle_search_key leaves focus on key k
SearchKeyPanel(k) == IF k = "Down" THEN SearchDownPanel ELSE active_panel

\* handle_search_key: writes query and active_panel
HandleSearchKey(k) ==
    /\ IF k \in KeyChars
       THEN /\ Len(query) < MaxQueryLen
            /\ query' = Append(query, k)
       ELSE IF k = "Backspace"
       THEN query' = IF query = << >> THEN query ELSE SubSeq(query, 1, Len(query) - 1)
       ELSE UNCHANGED query
    /\ active_panel' = SearchKeyPanel(k)
    /\ UNCHANGED <<filterVars, resultVars, sendVars, searching, status_message,
                   scrollVars, spinner_frame, should_animate,
                   search_workers, next_ticket, search_log,
                   upload_workers, next_upload, upload_log>>

\* a row count with one row too many
TotalItemsOneMore == 3 + Len(available_indexers) + 4 + 2 + 1

\* "3 sort + indexers + 4 min_seed + 2 nsfw options"
total_items == 3 + Len(available_indexers) + 4 + 2

\* an indexer arm that keeps "all" next to a specific source
ToggleIndexerKeepsAll(sel, indexer) ==
    IF indexer = "all" THEN <<"all">>
    ELSE IF Contains(sel, indexer)
    THEN LET kept == Retain(sel, indexer) IN
         IF kept = << >> THEN <<"all">> ELSE kept
    ELSE Append(sel, indexer)

\* an indexer arm that pushes the source without looking for it
ToggleIndexerPushes(sel, indexer) ==
    IF indexer = "all" THEN <<"all">>
    ELSE Append(IF Contains(sel, "all") THEN << >> ELSE sel, indexer)

\* the indexer arm of handle_filter_key: the new selected_indexers
ToggleIndexer(sel, indexer) ==
    IF indexer = "all" THEN <<"all">>
    ELSE LET cleared == IF Contains(sel, "all") THEN << >> ELSE sel IN
         IF Contains(cleared, indexer)
         THEN LET kept == Retain(cleared, indexer) IN
              IF kept = << >> THEN <<"all">> ELSE kept
         ELSE Append(cleared, indexer)

\* an indexer arm that runs a search on every toggle
RedispatchesAlways == TRUE

\* the indexer arm of handle_filter_key: "Re-run search if we have results
\* to filter"
RedispatchesSearch == results # << >> /\ query # << >>

\* the Space/Enter arm of handle_filter_key
ActivateFilterRow ==
    LET n == Len(available_indexers) IN
    IF sort_cursor < 3
    THEN /\ sort_by' = (CASE sort_cursor = 0 -> "Seeders"
                          [] sort_cursor = 1 -> "Size"
                          [] sort_cursor = 2 -> "Name")
         /\ UNCHANGED <<selected_indexers, min_seeds, filter_nsfw, searchWrites>>
    ELSE IF sort_cursor < 3 + n
    THEN LET sel == ToggleIndexer(selected_indexers, available_indexers[sort_cursor - 3 + 1]) IN
         /\ selected_indexers' = sel
         /\ IF RedispatchesSearch
            THEN PerformSearch(sel)
            ELSE UNCHANGED searchWrites
         /\ UNCHANGED <<sort_by, min_seeds, filter_nsfw>>
    ELSE IF sort_cursor < 3 + n + 4
    THEN /\ min_seeds' = min_seed_options[sort_cursor - 3 - n + 1]
         /\ UNCHANGED <<selected_indexers, sort_by, filter_nsfw, searchWrites>>
    ELSE /\ filter_nsfw' = (sort_cursor - 3 - n - 4 # 1)
         /\ UNCHANGED <<selected_indexers, sort_by, min_seeds, searchWrites>>

\* handle_filter_key
HandleFilterKey(k) ==
    /\ IF k = "Up" /\ sort_cursor > 0
       THEN /\ sort_cursor' = sort_cursor - 1
            /\ UNCHANGED <<active_panel, selected_indexers, sort_by, min_seeds,
                           filter_nsfw, searchWrites>>
       ELSE IF k = "Down" /\ sort_cursor < total_items - 1
       THEN /\ sort_cursor' = sort_cursor + 1
            /\ UNCHANGED <<active_panel, selected_indexers, sort_by, min_seeds,
                           filter_nsfw, searchWrites>>
       ELSE IF k = "Right"
       THEN /\ active_panel' = "Results"
            /\ UNCHANGED <<filterVars, searchWrites>>
       ELSE IF k \in {" ", "Enter"}
       THEN /\ ActivateFilterRow
            /\ UNCHANGED <<active_panel, sort_cursor>>
       ELSE UNCHANGED <<active_panel, filterVars, searchWrites>>
    /\ UNCHANGED <<query, selected_index, scroll_offset, sendVars, scrollVars,
                   upload_workers, next_upload, upload_log>>

\* a Space arm that toggles every row
ToggleSelectedAll(list, i) ==
    [j \in 1..Len(list) |-> [list[j] EXCEPT !.selected = ~list[j].selected]]

\* result.selected = !result.selected, on the highlighted row
ToggleSelected(list, i) == [list EXCEPT ![i].selected = ~list[i].selected]

\* an Up arm that always hands focus back to the search bar
UpLeavesResultsAlways == TRUE

\* the Up arm of handle_results_key leaves the panel when there is no row
\* above the highlighted one
UpLeavesResults == results = << >> \/ ~(selected_index > 0)

\* "Reset scroll animation when changing selection"
ResetTitleScroll ==
    /\ title_scroll_offset' = 0
    /\ title_scroll_direction' = 1

\* handle_results_key
HandleResultsKey(k) ==
    /\ IF k = "Up"
       THEN IF UpLeavesResults
            THEN /\ active_panel' = "Search"
                 /\ UNCHANGED <<resultVars, scrollVars>>
            ELSE /\ selected_index' = selected_index - 1
                 /\ scroll_offset' = IF selected_index - 1 < scroll_offset
                                     THEN selected_index - 1 ELSE scroll_offset
                 /\ ResetTitleScroll
                 /\ UNCHANGED <<active_panel, results>>
       ELSE IF k = "Down" /\ results # << >>
                          /\ selected_index < SatSub(Len(results), 1)
       THEN LET results_height == SatSub(cached_height, 7) IN
            /\ selected_index' = selected_index + 1
            /\ scroll_offset' = IF selected_index + 1 >= scroll_offset + results_height
                                THEN selected_index + 1 - results_height + 1
                                ELSE scroll_offset
            /\ ResetTitleScroll
            /\ UNCHANGED <<active_panel, results>>
       ELSE IF k = "Left"
       THEN /\ active_panel' = "Filters"
            /\ UNCHANGED <<resultVars, scrollVars>>
       ELSE IF k = " " /\ results # << >> /\ selected_index < Len(results)
       THEN /\ results' = ToggleSelected(results, selected_index + 1)
            /\ UNCHANGED <<active_panel, selected_index, scroll_offset, scrollVars>>
       ELSE UNCHANGED <<active_panel, resultVars, scrollVars>>
    /\ UNCHANGED <<query, filterVars, sendVars, searching, status_message,
                   spinner_frame, should_animate,
                   search_workers, next_ticket, search_log,
                   upload_workers, next_upload, upload_log>>

\* the variables a key handler can write, apart from pc and the history
keyWrites == <<query, active_panel, searching, status_message, filterVars,
               resultVars, sendVars, scrollVars, spinner_frame, should_animate,
               search_workers, next_ticket, search_log,
               upload_workers, next_upload, upload_log>>

\* a handle_key that has lost its Esc arm
QuitsOnNothing(k) == FALSE

\* handle_key returns Ok(false) only for Esc
QuitsOn(k) == k = "Esc"

\* an Enter arm that searches from the search bar only
EnterSearchesFromBar(p) == p = "Search"

\* the Enter arm of handle_key: Search and Filters run perform_search,
\* Results runs send_to_putio
EnterSearches(p) == p \in {"Search", "Filters"}

\* handle_key
HandleKey(k) ==
    IF QuitsOn(k)
    THEN UNCHANGED keyWrites
    ELSE IF k = "Tab"
    THEN /\ active_panel' = TabPanel(active_panel)
         /\ status_message' = SwitchedTo(active_panel')
         /\ UNCHANGED <<query, searching, filterVars, resultVars, sendVars,
                        scrollVars, spinner_frame, should_animate,
                        search_workers, next_ticket, search_log,
                        upload_workers, next_upload, upload_log>>
    ELSE IF k = "BackTab"
    THEN /\ active_panel' = BackTabPanel(active_panel)
         /\ status_message' = SwitchedTo(active_panel')
         /\ UNCHANGED <<query, searching, filterVars, resultVars, sendVars,
                        scrollVars, spinner_frame, should_animate,
                        search_workers, next_ticket, search_log,
                        upload_workers, next_upload, upload_log>>
    ELSE IF k = "Enter"
    THEN IF EnterSearches(active_panel)
         THEN /\ PerformSearch(selected_indexers)
              /\ UNCHANGED <<query, active_panel, filterVars, selected_index,
                             scroll_offset, sendVars, scrollVars,
                             upload_workers, next_upload, upload_log>>
         ELSE /\ SendToPutio
              /\ UNCHANGED <<searching, filterVars, selected_index,
                             scroll_offset, scrollVars, spinner_frame,
                             search_workers, next_ticket, search_log>>
    ELSE CASE active_panel = "Search"  -> HandleSearchKey(k)
           [] active_panel = "Filters" -> HandleFilterKey(k)
           [] active_panel = "Results" -> HandleResultsKey(k)

\* event::poll(50 ms)? and event::read()?: no event within the timeout (or
\* an event that is not a key), an I/O error, or one key
NoEvent ==
    /\ pc = "event"
    /\ pc' = "check_search"
    /\ UNCHANGED <<termVars, cfgVars, appVars, searchJobVars, uploadJobVars, histVars>>

EventFails ==
    /\ pc = "event"
    /\ LoopFails
    /\ UNCHANGED <<raw_mode, alt_screen, cursor_hidden, run_result, restore_attempted>>
    /\ UNCHANGED <<cfgVars, appVars, searchJobVars, uploadJobVars, histVars>>

KeyEvent(k) ==
    /\ pc = "event"
    /\ keys_handled < MaxKeys
    /\ keys_handled' = keys_handled + 1
    /\ esc_presses' = IF k = "Esc" THEN esc_presses + 1 ELSE esc_presses
    /\ HandleKey(k)
    /\ IF QuitsOn(k)
       THEN pc' = "leave_alt" /\ loop_result' = "ok"
       ELSE pc' = "check_search" /\ UNCHANGED loop_result
    /\ nav_hist' = IF k \in {"Tab", "BackTab"}
                   THEN NavPush(nav_hist, k, active_panel) ELSE NoNav
    /\ last_key' = [key |-> k, panel |-> active_panel]
    /\ UNCHANGED <<raw_mode, alt_screen, cursor_hidden, run_result, restore_attempted>>
    /\ UNCHANGED <<cfgVars, sizeVars, frame_counter, marquee_cache,
                   search_results, send_complete, timers, animHist>>

\* ------------------------------------------------------ detached threads
\* the search thread: client.search (a provider answer out of responses,
\* or an error), the post-processing, and the write into search_results.
\* The mailbox keeps the provider's answer beside the outcome.
SearchWorkerAnswers(w, responses) ==
    /\ w \in search_workers
    /\ \E ok \in BOOLEAN : \E resp \in responses :
         /\ ok \/ resp = << >>
         /\ search_results' = <<[ticket |-> w.ticket, ok |-> ok, answer |-> resp,
                                 results |-> IF ok THEN ProcessResults(w, resp) ELSE << >>]>>
    /\ search_workers' = search_workers \ {w}
    /\ search_log' =
         LET written == [search_log EXCEPT ![w.ticket].state = "exited",
                                           ![w.ticket].writes = @ + 1]
         IN  IF search_results # << >>
             THEN [written EXCEPT ![search_results[1].ticket].lost = TRUE]
             ELSE written
    /\ UNCHANGED <<pc, termVars, cfgVars, appVars, next_ticket, uploadJobVars, histVars>>

\* the search thread against the provider of Spec
SearchWorkerDone(w) == SearchWorkerAnswers(w, Responses)

ReplaceWorker(w, w2) == (upload_workers \ {w}) \cup {w2}

\* the upload thread, "Ensure folder exists": with a configured folder id
\* no call is made; otherwise find_or_create_folder, whose failure returns
UploadFolder(w) ==
    /\ w \in upload_workers /\ w.step = "folder"
    /\ \/ /\ upload_workers' =
               ReplaceWorker(w, [w EXCEPT !.step = "transfers",
                                          !.calls = IF w.has_folder THEN @
                                                    ELSE Append(@, [call |-> "folder", ok |-> TRUE])])
          /\ UNCHANGED upload_log
       \/ /\ ~w.has_folder
          /\ upload_workers' = upload_workers \ {w}
          /\ upload_log' = [upload_log EXCEPT ![w.id].state = "exited",
                                              ![w.id].failed = TRUE]
    /\ UNCHANGED <<pc, termVars, cfgVars, appVars, searchJobVars,
                   send_complete, timers, next_upload, histVars>>

\* "Send transfers": one add_transfer per magnet, a failure is only logged
UploadTransfer(w) ==
    /\ w \in upload_workers /\ w.step = "transfers"
    /\ IF w.magnets = << >>
       THEN /\ upload_workers' = ReplaceWorker(w, [w EXCEPT !.step = "signal"])
            /\ UNCHANGED upload_log
       ELSE \E ok \in BOOLEAN :
              /\ upload_workers' =
                   ReplaceWorker(w, [w EXCEPT !.magnets = Tail(@),
                                              !.calls = Append(@, [call |-> Head(w.magnets),
                                                                   ok |-> ok])])
              /\ upload_log' = IF ok THEN upload_log
                               ELSE [upload_log EXCEPT ![w.id].failed = TRUE]
    /\ UNCHANGED <<pc, termVars, cfgVars, appVars, searchJobVars,
                   send_complete, timers, next_upload, histVars>>

\* "Signal completion"
UploadSignal(w) ==
    /\ w \in upload_workers /\ w.step = "signal"
    /\ send_complete' = TRUE
    /\ upload_workers' = upload_workers \ {w}
    /\ upload_log' = [upload_log EXCEPT ![w.id].state = "exited",
                                        ![w.id].writes = @ + 1]
    /\ UNCHANGED <<pc, termVars, cfgVars, appVars, searchJobVars, timers,
                   next_upload, histVars>>

\* the dismiss timer: sleeps 2 s, then resets send_complete
TimerFires ==
    /\ timers > 0
    /\ timers' = timers - 1
    /\ send_complete' = FALSE
    /\ UNCHANGED <<pc, termVars, cfgVars, appVars, searchJobVars,
                   upload_workers, next_upload, upload_log, histVars>>

\* ------------------------------------------------------------------ Spec
Next ==
    \/ EnableRaw \/ EnterAlt \/ LeaveAlt \/ DisableRaw
    \/ CheckSearch \/ CheckSend \/ CheckClose \/ Draw
    \/ NoEvent \/ EventFails
    \/ \E k \in Keys : KeyEvent(k)
    \/ \E w \in search_workers : SearchWorkerDone(w)
    \/ \E w \in upload_workers : UploadFolder(w)
    \/ \E w \in upload_workers : UploadTransfer(w)
    \/ \E w \in upload_workers : UploadSignal(w)
    \/ TimerFires

Spec == Init /\ [][Next]_vars

\* ------------------------------------------------- the loop, further in
\* the first search has answered <<E3, E1, E2>> under the default filters
Loaded == ProcessResults([sort_by |-> "Seeders", min_seeds |-> 10], <<E3, E1, E2>>)

\* run() holds the terminal, the loop is at the top of a frame, no upload
\* has been made
HeldAt(sizes) ==
    /\ pc = "check_search"
    /\ raw_mode = TRUE /\ alt_screen = TRUE /\ cursor_hidden = TRUE
    /\ loop_result = "none" /\ run_result = "none" /\ restore_attempted = {}
    /\ chill_client = TRUE
    /\ putio_client = TRUE
    /\ sending_to_putio = FALSE /\ sending_complete = FALSE
    /\ sent_file_name = NoFile
    /\ \E sz \in sizes :
         /\ cached_width = sz[1] /\ cached_height = sz[2]
         /\ layout_cache = <<LayoutCacheNew(sz[1], sz[2], RESULTS_X_OFFSET + MARGIN_X)>>
    /\ send_complete = FALSE
    /\ upload_workers = {} /\ timers = 0
    /\ next_upload = 1
    /\ upload_log = NewUploadLog
    /\ esc_presses = 0
    /\ nav_hist = NoNav /\ last_key = NoKey
    /\ spinner_frame = 0 /\ should_animate = TRUE
    /\ frames = 0 /\ marquee_hist = NoMarqueeHist

\* the loop on the terminal of Spec
Held == HeldAt(TermSizes)

\* the filters at their defaults, the first search dispatched and its
\* outcome taken, no search in flight.  The keys handled on the way here
\* are counted as one.
SearchOver ==
    /\ title_scroll_offset = 0 /\ title_scroll_direction = 1
    /\ selected_indexers = <<"all">>
    /\ sort_by = "Seeders" /\ min_seeds = 10 /\ filter_nsfw = TRUE
    /\ searching = FALSE
    /\ search_results = << >>
    /\ search_workers = {}
    /\ next_ticket = 2
    /\ search_log = [NewSearchLog EXCEPT ![1] =
                       [state |-> "exited", writes |-> 1, taken |-> 1, lost |-> FALSE]]
    /\ keys_handled = 1

\* Held, after that first search
Searched == Held /\ SearchOver

\* Searched, under a configuration that names no destination folder id
Running == Searched /\ putio_folder_id = FALSE

\* focus has been moved to Filters and the cursor to any row; the query is
\* typed or erased, the results are the loaded ones or none
FilterInit ==
    /\ Running
    /\ selected_index = 0 /\ scroll_offset = 0
    /\ active_panel = "Filters"
    /\ status_message = SwitchedTo("Filters")
    /\ sort_cursor \in 0..(total_items - 1)
    /\ query \in {<< >>, <<"a">>}
    /\ results \in {<< >>, Loaded}
    /\ frame_counter = 0
    /\ marquee_cache = MarqueeCacheNew(banner)

\* the loop of main_loop without the animation step
LoopNext ==
    \/ LeaveAlt \/ DisableRaw
    \/ CheckSearch \/ CheckSend \/ CheckClose \/ Draw
    \/ NoEvent \/ EventFails
    \/ \E k \in Keys : KeyEvent(k)
    \/ \E w \in search_workers : SearchWorkerDone(w)
    \/ \E w \in upload_workers : UploadFolder(w)
    \/ \E w \in upload_workers : UploadTransfer(w)
    \/ \E w \in upload_workers : UploadSignal(w)
    \/ TimerFires

FilterSpec == FilterInit /\ [][LoopNext]_vars

\* the first search has just completed: its results are shown, focus is
\* on Results, the first row is highlighted; the u8 frame counter is at
\* its start or about to wrap
ScrollInit ==
    /\ Running
    /\ selected_index = 0 /\ scroll_offset = 0
    /\ active_panel = "Results"
    /\ status_message = Status("ok", "Found results", Len(Loaded))
    /\ sort_cursor = 0
    /\ query = <<"a">>
    /\ results = Loaded
    /\ frame_counter \in {0, 254}
    /\ marquee_cache = MarqueeCacheNew(banner)

\* the loop of main_loop, every step of it
FrameNext ==
    \/ LeaveAlt \/ DisableRaw
    \/ CheckSearch \/ CheckSend \/ CheckClose \/ DrawFrame \/ Animate
    \/ NoEvent \/ EventFails
    \/ \E k \in Keys : KeyEvent(k)
    \/ \E w \in search_workers : SearchWorkerDone(w)
    \/ \E w \in upload_workers : UploadFolder(w)
    \/ \E w \in upload_workers : UploadTransfer(w)
    \/ \E w \in upload_workers : UploadSignal(w)
    \/ TimerFires

ScrollSpec == ScrollInit /\ [][FrameNext]_vars

\* a terminal of twelve rows: the frame has room for one row of the list
WindowSizes == {<<80, 12>>}

\* the draw step on that terminal
DrawWindow == DrawOf("event", WindowSizes)

\* results are on screen and have the focus, on the terminal of twelve rows
WindowInit ==
    /\ HeldAt(WindowSizes) /\ SearchOver
    /\ putio_folder_id = FALSE
    /\ selected_index = 0 /\ scroll_offset = 0
    /\ active_panel = "Results"
    /\ status_message = Status("ok", "Found results", Len(Loaded))
    /\ sort_cursor = 0
    /\ query = <<"a">>
    /\ results = Loaded
    /\ frame_counter = 0
    /\ marquee_cache = MarqueeCacheNew(banner)

\* the loop of main_loop without the animation step, on that terminal
WindowNext ==
    \/ LeaveAlt \/ DisableRaw
    \/ CheckSearch \/ CheckSend \/ CheckClose \/ DrawWindow
    \/ NoEvent \/ EventFails
    \/ \E k \in Keys : KeyEvent(k)
    \/ \E w \in search_workers : SearchWorkerDone(w)
    \/ \E w \in upload_workers : UploadFolder(w)
    \/ \E w \in upload_workers : UploadTransfer(w)
    \/ \E w \in upload_workers : UploadSignal(w)
    \/ TimerFires

WindowSpec == WindowInit /\ [][WindowNext]_vars

\* ------------------------------------------------- uploads, further in
\* list with the selected flag set on the entries at the positions marks
Flagged(list, marks) ==
    [i \in 1..Len(list) |-> [list[i] EXCEPT !.selected = (i \in marks)]]

\* the first search has completed and focus is on Results: any of the rows
\* is highlighted and any of them has been marked with Space; the
\* configuration may name the destination folder id
UploadInit ==
    /\ Searched
    /\ putio_folder_id \in BOOLEAN
    /\ active_panel = "Results"
    /\ status_message = Status("ok", "Found results", Len(Loaded))
    /\ sort_cursor = 0
    /\ query = <<"a">>
    /\ \E marks \in SUBSET (1..Len(Loaded)) : results = Flagged(Loaded, marks)
    /\ selected_index \in 0..(Len(Loaded) - 1)
    /\ scroll_offset = 0
    /\ frame_counter = 0
    /\ marquee_cache = MarqueeCacheNew(banner)

UploadSpec == UploadInit /\ [][LoopNext]_vars

\* --------------------------------------------- the title scroll, later
\* the title has been scrolling for a while: forward and short of the
\* turning point, or backward anywhere; the results are the loaded ones, or
\* a later search has found nothing.  The next frame is an animation tick.
TitleInit ==
    /\ Held
    /\ putio_folder_id = FALSE
    /\ selected_indexers = <<"all">>
    /\ sort_by = "Seeders" /\ min_seeds = 10 /\ filter_nsfw = TRUE
    /\ searching = FALSE
    /\ search_results = << >>
    /\ search_workers = {}
    /\ next_ticket = 2
    /\ search_log = [NewSearchLog EXCEPT ![1] =
                       [state |-> "exited", writes |-> 1, taken |-> 1, lost |-> FALSE]]
    /\ keys_handled = 3
    /\ results \in {<< >>, Loaded}
    /\ \/ /\ active_panel = "Results"
          /\ status_message = Status("ok", "Found results", Len(results))
       \/ /\ active_panel = "Search"
          /\ status_message = SwitchedTo("Search")
    /\ sort_cursor = 0
    /\ query = <<"a">>
    /\ selected_index \in {i \in 0..1 : i = 0 \/ i < Len(results)}
    /\ scroll_offset = selected_index
    /\ frame_counter = 2
    /\ marquee_cache = MarqueeCacheNew(banner)
    /\ \/ title_scroll_direction = 1 /\ title_scroll_offset \in 0..(TitleScrollMax - 1)
       \/ title_scroll_direction = -1 /\ title_scroll_offset \in 0..TitleScrollMax

TitleSpec == TitleInit /\ [][FrameNext]_vars

\* ------------------------------------------ the layout, on any terminal
\* terminals from no columns at all to MaxTermWidth columns and the widest
\* a u16 can report, short and tall
AnySizes == ((0..MaxTermWidth) \cup {65535}) \X {0, 7, 8, 24}

\* the draw step on a terminal that may have been resized to any size
DrawResized == DrawOf("event", AnySizes)

\* the loop is idle: nothing typed, nothing found, nothing in flight
LayoutInit ==
    /\ Running
    /\ selected_index = 0 /\ scroll_offset = 0
    /\ active_panel = "Search"
    /\ status_message = Status("none", "Ready", 0)
    /\ sort_cursor = 0
    /\ query = << >>
    /\ results = << >>
    /\ frame_counter = 0
    /\ marquee_cache = MarqueeCacheNew(banner)

\* the loop of main_loop with no key pressed
LayoutNext ==
    \/ LeaveAlt \/ DisableRaw
    \/ CheckSearch \/ CheckSend \/ CheckClose \/ DrawResized
    \/ NoEvent \/ EventFails

LayoutSpec == LayoutInit /\ [][LayoutNext]_vars

\* ---------------------------------- the post-processing, on any answer
\* provider answers of up to MaxResponse entries, in any order, repeats
\* included
AnyResponses == UNION {[1..n -> {E1, E2, E3, E4, E5}] : n \in 0..MaxResponse}

\* the first search has just been dispatched from the search bar, under any
\* sort mode and any threshold: the query and Enter are the keys handled
SortInit ==
    /\ Held
    /\ title_scroll_offset = 0 /\ title_scroll_direction = 1
    /\ putio_folder_id = FALSE
    /\ selected_index = 0 /\ scroll_offset = 0
    /\ selected_indexers = <<"all">>
    /\ sort_by \in SortModes
    /\ min_seeds \in {min_seed_options[i] : i \in 1..Len(min_seed_options)}
    /\ filter_nsfw = TRUE
    /\ active_panel = "Search"
    /\ sort_cursor = 0
    /\ query = <<"a">>
    /\ results = << >>
    /\ searching = TRUE
    /\ status_message = Status("none", "Fetching results...", 0)
    /\ search_results = << >>
    /\ search_workers = {[ticket |-> 1, query |-> query, min_seeds |-> min_seeds,
                           sort_by |-> sort_by, filter_nsfw |-> filter_nsfw,
                           indexers |-> WorkerIndexers(selected_indexers)]}
    /\ next_ticket = 2
    /\ search_log = [NewSearchLog EXCEPT ![1].state = "running"]
    /\ keys_handled = 2
    /\ frame_counter = 0
    /\ marquee_cache = MarqueeCacheNew(banner)

\* the search thread against a provider that may answer anything
SearchWorkerAnyAnswer(w) == SearchWorkerAnswers(w, AnyResponses)

\* the loop of main_loop with no key pressed, and the search thread
SortNext ==
    \/ LeaveAlt \/ DisableRaw
    \/ CheckSearch \/ CheckSend \/ CheckClose \/ Draw
    \/ NoEvent \/ EventFails
    \/ \E w \in search_workers : SearchWorkerAnyAnswer(w)

SortSpec == SortInit /\ [][SortNext]_vars

\* ------------------------------------------------- MarqueeCache, alone
BannerChars == {"+", " "}
Buffers == UNION {[1..n -> BannerChars] : n \in 0..MaxBanner}

\* MarqueeCache::new(text) for any text; the rest of the App is left alone
MarqueeInit ==
    /\ Running
    /\ selected_index = 0 /\ scroll_offset = 0
    /\ \E text \in Buffers : marquee_cache = MarqueeCacheNew(text)
    /\ active_panel = "Search"
    /\ status_message = Status("none", "Ready", 0)
    /\ sort_cursor = 0
    /\ query = << >>
    /\ results = << >>
    /\ frame_counter = 0

\* one call of advance.  The history counts the calls made since the
\* offset was start, and begins a new count at any call.
MarqueeAdvance ==
    /\ ~marquee_hist.panicked
    /\ IF AdvancePanics(marquee_cache)
       THEN /\ marquee_hist' = [marquee_hist EXCEPT !.panicked = TRUE]
            /\ UNCHANGED marquee_cache
       ELSE \E restart \in BOOLEAN :
              LET h == IF restart
                       THEN [marquee_hist EXCEPT !.start = marquee_cache.offset,
                                                 !.steps = 0]
                       ELSE marquee_hist
              IN  /\ h.steps < Len(marquee_cache.chars)
                  /\ marquee_cache' = advance(marquee_cache)
                  /\ marquee_hist' = [h EXCEPT !.steps = @ + 1]
    /\ UNCHANGED <<runVars, cfgVars, query, active_panel, searching,
                   status_message, filterVars, resultVars, sizeVars, sendVars,
                   scrollVars, frame_counter, spinner_frame, should_animate,
                   searchJobVars, uploadJobVars, keyCount, nav_hist, last_key,
                   frames>>

\* one call of render(width); the history keeps the width, the offset at
\* the call and the string returned
MarqueeRender ==
    /\ ~marquee_hist.panicked
    /\ \E width \in 0..MaxRenderWidth :
         marquee_hist' = [marquee_hist EXCEPT !.rendered =
                            <<[width |-> width, offset |-> marquee_cache.offset,
                               text |-> render(marquee_cache, width)]>>]
    /\ UNCHANGED <<runVars, cfgVars, appVars, searchJobVars, uploadJobVars,
                   keyCount, nav_hist, last_key, frames>>

MarqueeNext == MarqueeAdvance \/ MarqueeRender

MarqueeSpec == MarqueeInit /\ [][MarqueeNext]_vars
\* ================================================================ claims
LastNav == nav_hist.keys[Len(nav_hist.keys)]
LastNavFrom == nav_hist.panels[Len(nav_hist.panels)]

\* C1: every outcome a search worker writes into search_results is taken by
\* exactly one later poll: none is taken twice, none is overwritten before
\* it is taken, and none sits in the mailbox while the loop does not poll
\* it (the loop polls only while searching is set).
C1_SearchMailboxDelivery ==
    /\ \A t \in 1..MaxSearches :
         /\ search_log[t].taken <= 1
         /\ ~search_log[t].lost
    /\ search_results # << >> => searching

\* C2: at most one search worker and at most one upload worker is in
\* flight in every reachable state.
C2_OneJobInFlight ==
    /\ Cardinality(search_workers) <= 1
    /\ Cardinality(upload_workers) <= 1

\* C3: a worker that has terminated has written exactly one outcome into
\* its mailbox, whatever its remote calls returned.
C3_WorkerWritesOnce ==
    /\ \A t \in 1..MaxSearches :
         search_log[t].state = "exited" => search_log[t].writes = 1
    /\ \A u \in 1..MaxUploads :
         upload_log[u].state = "exited" => upload_log[u].writes = 1

\* C4: a failed remote call never leaves a job flag set with nothing left
\* to clear it: once a worker in which a call failed has terminated and no
\* worker, mailbox content or timer of that job kind is pending, the job's
\* in-progress flag is clear.
C4_FailureClearsFlag ==
    /\ (/\ \E t \in 1..MaxSearches : search_log[t].state = "exited"
        /\ search_workers = {} /\ search_results = << >>) => ~searching
    /\ (/\ \E u \in 1..MaxUploads :
              upload_log[u].state = "exited" /\ upload_log[u].failed
        /\ upload_workers = {} /\ ~send_complete /\ timers = 0) => ~sending_to_putio

\* C5: with a collaborator client absent, dispatching leaves no job flag
\* set and spawns no worker.
C5_AbsentClientNoJob ==
    /\ ~chill_client => ~searching /\ search_workers = {}
    /\ ~putio_client => ~sending_to_putio /\ upload_workers = {}

\* C6: when run() has returned after acquiring the terminal, both
\* restoration steps (leave the alternate screen and show the cursor,
\* disable raw mode) have been carried out or at least attempted.
C6_TerminalRestored ==
    (pc = "returned" /\ (raw_mode \/ alt_screen \/ cursor_hidden))
        => {"leave_alt", "disable_raw"} \subseteq restore_attempted

\* C7: a Tab press moves focus Search -> Filters -> Results -> Search,
\* whatever the results, query and job flags are.
C7_TabCyclesForward ==
    (nav_hist.keys # << >> /\ LastNav = "Tab") =>
        \/ LastNavFrom = "Search"  /\ active_panel = "Filters"
        \/ LastNavFrom = "Filters" /\ active_panel = "Results"
        \/ LastNavFrom = "Results" /\ active_panel = "Search"

\* C7 witness: Tab pressed on Results while a search is in flight
C7_Witness ==
    /\ nav_hist.keys # << >> /\ LastNav = "Tab" /\ LastNavFrom = "Results"
    /\ active_panel = "Search" /\ searching

TabRun(n) ==
    /\ Len(nav_hist.keys) = n /\ AllTab(nav_hist.keys)
    /\ nav_hist.panels[1] = "Search"

\* C8 as stated: starting on Search, four consecutive Tab presses return
\* focus to Search.
C8_FourTabsReturn == TabRun(4) => active_panel = "Search"

\* C8 amended: starting on Search, three consecutive Tab presses return
\* focus to Search and the fourth moves it on to Filters.
C8_ThreeTabsReturn ==
    /\ TabRun(3) => active_panel = "Search"
    /\ TabRun(4) => active_panel = "Filters"

C8_Witness == TabRun(3) /\ active_panel = "Search"

\* C9: Tab followed by Shift-Tab, and Shift-Tab followed by Tab, leave
\* focus on the panel it was on before the two presses.
C9_BackTabReversesTab ==
    (Len(nav_hist.keys) = 2 /\ nav_hist.keys[1] # nav_hist.keys[2])
        => active_panel = nav_hist.panels[1]

C9_Witness ==
    /\ nav_hist.keys = <<"BackTab", "Tab">>
    /\ nav_hist.panels[1] = "Filters" /\ active_panel = "Filters"

UpOnSearch == last_key.key = "Up" /\ last_key.panel = "Search"

\* C10 as stated: Up on Search moves focus to Results when the result list
\* is non-empty and to Filters when it is empty.
C10_UpLeavesSearch ==
    UpOnSearch => active_panel = (IF results # << >> THEN "Results" ELSE "Filters")

\* C10 amended: Up on Search leaves focus on Search, whether the result
\* list is empty or not.
C10_UpStaysOnSearch == UpOnSearch => active_panel = "Search"

C10_Witness == UpOnSearch /\ results # << >> /\ active_panel = "Search"

\* the step is the handling of key k, pressed with focus on panel p
Pressed(k, p) ==
    /\ keys_handled' = keys_handled + 1
    /\ last_key' = [key |-> k, panel |-> p]

DownOnSearch == last_key.key = "Down" /\ last_key.panel = "Search"

\* C11: Down on Search moves focus to Results when the result list is
\* non-empty and to Filters when it is empty, and writes no other field
\* of the App, no mailbox and no worker.
C11_DownLeavesSearch ==
    [][Pressed("Down", "Search") =>
         /\ active_panel' = (IF results # << >> THEN "Results" ELSE "Filters")
         /\ UNCHANGED <<query, searching, status_message, filterVars, resultVars,
                        sizeVars, sendVars, animVars, cfgVars, searchJobVars,
                        uploadJobVars>>]_vars

\* C11 witness: Down on Search with results on screen
C11_Witness == DownOnSearch /\ results # << >> /\ active_panel = "Results"

\* C12: Up on Results moves focus to Search exactly when the result list
\* is empty or row 0 is highlighted; otherwise focus stays on Results and
\* the highlighted index decreases by one.
C12_UpInResults ==
    [][Pressed("Up", "Results") =>
         IF results = << >> \/ selected_index = 0
         THEN active_panel' = "Search" /\ selected_index' = selected_index
         ELSE active_panel' = "Results" /\ selected_index' = selected_index - 1]_vars

\* C12 witness: Up pressed on a lower row, focus stayed on Results
C12_Witness ==
    /\ last_key.key = "Up" /\ last_key.panel = "Results"
    /\ active_panel = "Results" /\ Len(results) >= 2 /\ selected_index = 0

\* C13: Enter on Search or Filters runs the search job and nothing of the
\* upload job: with a non-empty query and a search client it sets
\* searching and spawns one search worker, otherwise it spawns none.  Enter
\* on Results runs the upload job and nothing of the search job: with at
\* least one result it sets sending_to_putio.
C13_EnterDispatch ==
    [][\A p \in Panels : Pressed("Enter", p) =>
         IF p \in {"Search", "Filters"}
         THEN /\ IF query # << >> /\ chill_client
                 THEN /\ searching'
                      /\ search_workers \subseteq search_workers'
                      /\ Cardinality(search_workers' \ search_workers) = 1
                 ELSE search_workers' = search_workers
              /\ UNCHANGED <<sendVars, uploadJobVars>>
         ELSE /\ results # << >> => sending_to_putio'
              /\ UNCHANGED <<searching, searchJobVars>>]_vars

\* C13 witness: Enter on Filters has spawned a search worker
C13_Witness ==
    /\ last_key.key = "Enter" /\ last_key.panel = "Filters"
    /\ searching /\ search_workers # {} /\ upload_workers = {}

C15_SecondEscapeQuits ==
    /\ (last_key.key = "Esc" /\ esc_presses = 1) =>
          /\ query = << >>
          /\ pc = "check_search"
          /\ loop_result = "none"
    /\ loop_result = "ok" => esc_presses >= 2

\* what activating the row under sort_cursor makes of the filter settings
RowEffect ==
    LET n == Len(available_indexers)
        c == sort_cursor
    IN  [sort_by |-> IF c < 3 THEN <<"Seeders", "Size", "Name">>[c + 1] ELSE sort_by,
         selected_indexers |->
             IF c >= 3 /\ c < 3 + n
             THEN ToggleIndexer(selected_indexers, available_indexers[c - 3 + 1])
             ELSE selected_indexers,
         min_seeds |-> IF c >= 3 + n /\ c < 3 + n + 4
                       THEN min_seed_options[c - 3 - n + 1] ELSE min_seeds,
         filter_nsfw |-> IF c >= 3 + n + 4 THEN c - 3 - n - 4 = 0 ELSE filter_nsfw]

\* C16: Enter on Filters applies the effect of the row under sort_cursor,
\* as Space does: the sort mode, the indexer toggle, the minimum-seeder
\* threshold or the adult-content filter of that row.
C16_EnterActivatesRow ==
    [][Pressed("Enter", "Filters") =>
         /\ sort_by' = RowEffect.sort_by
         /\ selected_indexers' = RowEffect.selected_indexers
         /\ min_seeds' = RowEffect.min_seeds
         /\ filter_nsfw' = RowEffect.filter_nsfw]_vars

\* the indexer row under the cursor, when Space is pressed on Filters
OnIndexerRow(i) == Pressed(" ", "Filters") /\ sort_cursor = 3 + i - 1

\* C17: activating a specific source while the selection is {"all"} makes
\* the selection that source alone; activating the only selected source
\* makes it {"all"}; activating "all" makes it {"all"} whatever it was.
C17_IndexerToggle ==
    [][\A i \in 1..Len(available_indexers) : OnIndexerRow(i) =>
         LET name == available_indexers[i] IN
         /\ (name # "all" /\ selected_indexers = <<"all">>) => selected_indexers' = <<name>>
         /\ (name # "all" /\ selected_indexers = <<name>>) => selected_indexers' = <<"all">>
         /\ name = "all" => selected_indexers' = <<"all">>]_vars

\* C17 witness: a specific source has replaced "all"
C17_Witness ==
    /\ last_key.key = " " /\ last_key.panel = "Filters"
    /\ sort_cursor = 4 /\ selected_indexers = <<available_indexers[2]>>

\* C18: Space on an indexer row spawns a search worker exactly when the
\* result list and the query are both non-empty; Space on any other row
\* spawns none.
C18_IndexerRedispatch ==
    [][Pressed(" ", "Filters") =>
         LET dispatched == search_workers' # search_workers /\ searching'
             untouched == UNCHANGED <<results, searching, searchJobVars>>
         IN  IF sort_cursor >= 3 /\ sort_cursor < 3 + Len(available_indexers)
                /\ results # << >> /\ query # << >>
             THEN dispatched
             ELSE untouched]_vars

\* C18 witness: the first key is Space on an indexer row and a search
\* worker is running
C18_Witness ==
    /\ last_key.key = " " /\ last_key.panel = "Filters"
    /\ keys_handled = 2 /\ sort_cursor = 4
    /\ search_workers # {} /\ searching /\ results = << >>

\* C19: whenever the highlighted index changes, the title scroll is at
\* offset 0 and runs forward immediately afterwards.
C19_IndexChangeResetsScroll ==
    [][selected_index' # selected_index =>
         title_scroll_offset' = 0 /\ title_scroll_direction' = 1]_vars

\* C20: a non-empty marquee keeps offset < period, and period calls of
\* advance bring offset back to where it started.
C20_MarqueeWraps ==
    LET period == Len(marquee_cache.chars) IN
    period > 0 =>
        /\ marquee_cache.offset < period
        /\ marquee_hist.steps = period => marquee_cache.offset = marquee_hist.start

\* C20 witness: three calls on a three-character marquee, counted from
\* offset 2
C20_Witness ==
    /\ Len(marquee_cache.chars) = 3
    /\ marquee_hist.start = 2 /\ marquee_hist.steps = 3
    /\ marquee_cache.offset = 2

\* the string render returned sits at the cyclic positions offset,
\* offset + 1, ... of the buffer
RenderedCyclic(r) ==
    LET period == Len(marquee_cache.chars) IN
    \A i \in 1..Len(r.text) :
        r.text[i] = marquee_cache.chars[((r.offset + i - 1) % period) + 1]

\* C21 as stated: for a non-empty buffer render(width) returns the
\* min(width, period) characters at cyclic positions offset, offset + 1, ...
C21_RenderMinWidth ==
    LET period == Len(marquee_cache.chars) IN
    (period > 0 /\ marquee_hist.rendered # << >>) =>
        LET r == marquee_hist.rendered[1] IN
        /\ Len(r.text) = (IF r.width < period THEN r.width ELSE period)
        /\ RenderedCyclic(r)

\* C21 amended: for a non-empty buffer render(width) returns exactly width
\* characters, those at cyclic positions offset, offset + 1, ..., wrapping
\* past the end of the buffer as often as the width asks for.
C21_RenderFullWidth ==
    LET period == Len(marquee_cache.chars) IN
    (period > 0 /\ marquee_hist.rendered # << >>) =>
        LET r == marquee_hist.rendered[1] IN
        /\ Len(r.text) = r.width
        /\ RenderedCyclic(r)

\* C21 witness: a three-character buffer rendered five wide from offset 2
C21_Witness ==
    /\ Len(marquee_cache.chars) = 3 /\ marquee_hist.rendered # << >>
    /\ marquee_hist.rendered[1].width = 5 /\ marquee_hist.rendered[1].offset = 2
    /\ Len(marquee_hist.rendered[1].text) = 5

\* C22: on a marquee built from the empty string neither render nor
\* advance fails, and render returns the empty string.
C22_EmptyMarqueeSafe ==
    Len(marquee_cache.chars) = 0 =>
        /\ ~marquee_hist.panicked
        /\ marquee_hist.rendered # << >> => marquee_hist.rendered[1].text = << >>
\* the narrowest terminal on which no subtraction of LayoutCache::new
\* saturates: margin and border, the three columns with their gutters, and
\* the 11 cells left of the title
MinLayoutWidth == (MARGIN_X + 1) + 10 + 3 + 5 + 3 + 12 + 3
                  + (RESULTS_X_OFFSET + MARGIN_X) + 2 + 3 + 3 + 3

\* the title starts 11 cells right of the Results panel and is title_width
\* wide
TitleEnd(l) == (RESULTS_X_OFFSET + MARGIN_X) + 2 + 3 + 3 + 3 + l.title_width

\* C23: on every terminal at least MinLayoutWidth wide the cached layout is
\* ordered left to right, title_end <= separator < size_start < size_end <
\* seeders_start < seeders_end < source_start < source_end <= right_border,
\* the size, seeders and source columns being 12, 5 and 10 cells wide with
\* 3 cells between them and 3 cells between the separator and the size
\* column.
C23_LayoutOrdered ==
    \A i \in 1..Len(layout_cache) :
      LET l == layout_cache[i]
          size_end == l.size_column + 12
          seeds_end == l.seeds_column + 5
          source_end == l.source_column + 10
      IN  l.terminal_width >= MinLayoutWidth =>
            /\ TitleEnd(l) <= l.separator_column
            /\ l.separator_column < l.size_column
            /\ l.size_column < size_end
            /\ size_end < l.seeds_column
            /\ l.seeds_column < seeds_end
            /\ seeds_end < l.source_column
            /\ l.source_column < source_end
            /\ source_end <= l.right_border_column
            /\ l.size_column - l.separator_column = 3
            /\ l.seeds_column - size_end = 3
            /\ l.source_column - seeds_end = 3

\* the layout has been computed for the narrowest such terminal, where the
\* title has no cell left, and the terminal was resized to get there
C23_Witness ==
    /\ layout_cache # << >>
    /\ layout_cache[1].terminal_width = MinLayoutWidth
    /\ layout_cache[1].terminal_height = 24
    /\ layout_cache[1].title_width = 0
    /\ layout_cache[1].separator_column = TitleEnd(layout_cache[1])
    /\ pc = "event"
\* title a is below title b in the order of their code points: at the first
\* position where they differ a has the smaller code point, or a is a
\* proper prefix of b
TitleBelow(a, b) ==
    \E k \in 0..Len(a) :
      /\ k <= Len(b)
      /\ \A i \in 1..k : a[i] = b[i]
      /\ \/ k = Len(a) /\ k < Len(b)
         \/ k < Len(a) /\ k < Len(b) /\ a[k + 1] < b[k + 1]

\* x is strictly ahead of y in the order of the sort mode
Ahead(mode, x, y) ==
    \/ mode = "Seeders" /\ x.seeders > y.seeders
    \/ mode = "Size" /\ x.size > y.size
    \/ mode = "Name" /\ TitleBelow(x.title, y.title)

\* list d is the answer without the entries below the threshold, rearranged
\* so that no entry is behind one it is ahead of, entries that are level
\* keeping the order they had in the answer
DeliveredFrom(mode, min, answer, d) ==
    LET kept == SelectSeq(answer, LAMBDA r : ~(r.seeders < min))
        n == Len(kept)
    IN  /\ Len(d) = n
        /\ \E f \in [1..n -> 1..n] :
              /\ \A i, j \in 1..n : i # j => f[i] # f[j]
              /\ \A i \in 1..n : d[i] = kept[f[i]]
              /\ \A i, j \in 1..n :
                    i < j => /\ ~Ahead(mode, d[j], d[i])
                             /\ ~Ahead(mode, d[i], d[j]) => f[i] < f[j]

\* C24: the list a successful search worker delivers is the provider's list
\* without the entries whose seeders are below the threshold the worker
\* took at dispatch, sorted by the sort mode it took at dispatch: seeders
\* descending, size descending, or title ascending by code point, no case
\* folded.
C24_DeliveredList ==
    [][\A w \in search_workers :
         (/\ w \notin search_workers'
          /\ search_results' # << >>
          /\ search_results'[1].ticket = w.ticket
          /\ search_results'[1].ok)
         => DeliveredFrom(w.sort_by, w.min_seeds, search_results'[1].answer,
                          search_results'[1].results)]_vars

\* a worker has delivered a list sorted by name in which the upper-case
\* title comes first and the prefix before the longer title, the entry
\* below the threshold of 5 gone
C24_Witness ==
    /\ search_results # << >>
    /\ search_results[1].ok
    /\ search_results[1].answer = <<E5, E3, E2>>
    /\ search_results[1].results = <<E2, E5>>
    /\ min_seeds = 5 /\ sort_by = "Name"
\* C25: a search worker's outcome depends only on what the App held at
\* dispatch.  The worker spawned by a key takes the query, sort mode,
\* threshold, adult filter and indexer set the App holds as the handler
\* returns; no later step changes what a worker in flight has taken; and
\* the list it delivers is made from the provider's answer by the threshold
\* and sort mode it has taken, whatever the App holds by then.
C25_OutcomeFromDispatch ==
    [][/\ \A w \in search_workers' \ search_workers :
            /\ w.query = query'
            /\ w.sort_by = sort_by'
            /\ w.min_seeds = min_seeds'
            /\ w.filter_nsfw = filter_nsfw'
            /\ w.indexers = WorkerIndexers(selected_indexers')
       /\ \A w \in search_workers :
            \/ w \in search_workers'
            \/ /\ search_results' # << >>
               /\ search_results'[1].ticket = w.ticket
               /\ search_results'[1].ok =>
                    DeliveredFrom(w.sort_by, w.min_seeds, search_results'[1].answer,
                                  search_results'[1].results)]_vars

\* Enter dispatched a search under sort by seeders, Space on the Size row
\* changed the sort mode, and then the worker delivered the list sorted by
\* seeders
C25_Witness ==
    /\ keys_handled = 3
    /\ last_key = [key |-> " ", panel |-> "Filters"]
    /\ sort_by = "Size"
    /\ search_results # << >>
    /\ search_results[1].ok
    /\ search_results[1].answer = <<E3, E1, E2>>
    /\ search_results[1].results = <<E2, E1>>
\* completion signals written by upload workers so far
RECURSIVE SignalsUpTo(_)
SignalsUpTo(n) == IF n = 0 THEN 0 ELSE upload_log[n].writes + SignalsUpTo(n - 1)

\* C26: upload auto-dismiss.  After the upload worker has set the
\* completion flag the loop marks the upload complete and starts exactly
\* one timer worker, and after that timer has reset the flag the loop
\* clears sending_to_putio and sending_complete and moves focus to
\* Results.  Stated as what this makes true of every state: there are never
\* more dismiss timers sleeping than completion signals written by upload
\* workers, and the loop shows an upload as complete only when a worker has
\* signalled.
C26_OneTimerPerCompletion ==
    /\ timers <= SignalsUpTo(MaxUploads)
    /\ sending_complete => SignalsUpTo(MaxUploads) > 0
\* C27: when the loop polls the search mailbox and finds it full it empties
\* it and clears searching; on a success outcome the result list becomes
\* the outcome's list, the highlighted index and the scroll offset become 0
\* and focus moves to Results; on an error outcome the status message
\* starts with the failure glyph and the result list, the highlighted index
\* and the focus stay as they were.
C27_MailboxTaken ==
    [][(pc = "check_search" /\ pc' = "check_send"
        /\ searching /\ search_results # << >>)
       => /\ search_results' = << >>
          /\ ~searching'
          /\ IF search_results[1].ok
             THEN /\ results' = search_results[1].results
                  /\ selected_index' = 0
                  /\ scroll_offset' = 0
                  /\ active_panel' = "Results"
             ELSE /\ status_message'.glyph = "fail"
                  /\ results' = results
                  /\ selected_index' = selected_index
                  /\ active_panel' = active_panel]_vars

\* an error outcome has just been taken: focus is still on the search bar
\* and the highlighted index is still 1
C27_Witness ==
    /\ pc = "check_send"
    /\ status_message = Status("fail", "Search error", 0)
    /\ ~searching /\ search_results = << >>
    /\ active_panel = "Search"
    /\ selected_index = 1
    /\ search_log[2].taken = 1
\* the step keeps the entries of the result list, whatever their flags
ListKept ==
    /\ Len(results') = Len(results)
    /\ \A i \in 1..Len(results) :
         [results'[i] EXCEPT !.selected = FALSE] = [results[i] EXCEPT !.selected = FALSE]

\* the rows whose selected flag the step changes
FlagsChanged == {i \in 1..Len(results) : results'[i].selected # results[i].selected}

\* the step is Enter on Results spawning an upload worker
UploadDispatched == Pressed("Enter", "Results") /\ upload_workers' # upload_workers

\* C28, as claimed: the selected flag of an existing entry is changed only
\* by Space on the highlighted row while Results is focused; no other
\* operation, upload dispatch included, changes any entry's flag.
C28_OnlySpaceChangesFlags ==
    [][(ListKept /\ FlagsChanged # {})
       => (Pressed(" ", "Results") /\ FlagsChanged = {selected_index + 1})]_vars

\* C28, amended: the selected flag of an existing entry is changed only by
\* Space on the highlighted row while Results is focused, which toggles
\* that row alone, and by an upload dispatch that spawns a worker, which
\* clears the flag of every row; no other step changes any entry's flag.
C28_SpaceOrDispatchChangesFlags ==
    [][/\ (ListKept /\ FlagsChanged # {})
          => \/ Pressed(" ", "Results") /\ FlagsChanged = {selected_index + 1}
             \/ UploadDispatched
       /\ UploadDispatched
          => ListKept /\ \A i \in 1..Len(results') : ~results'[i].selected]_vars

\* Space marked the first row, Down moved the highlight to the second, and
\* Enter has dispatched the marked row and cleared its flag
C28_Witness ==
    /\ keys_handled = 4
    /\ last_key = [key |-> "Enter", panel |-> "Results"]
    /\ selected_index = 1
    /\ \E w \in upload_workers : w.magnets = <<"m2">>
    /\ results = Loaded
\* the magnets of a list of entries, in the order of the list
MagnetsOf(list) == [i \in 1..Len(list) |-> list[i].magnet]

\* the calls of worker w that are submissions
Submitted(w) == SelectSeq(w.calls, LAMBDA c : c.call # "folder")

\* worker w has asked for the folder at most once, and first of all; what
\* it has submitted is the beginning of what it has chosen, in that order,
\* and all of it once it is about to signal
WorkerOrderly(w) ==
    /\ \A i \in 1..Len(w.calls) : w.calls[i].call = "folder" => i = 1
    /\ Len(Submitted(w)) <= Len(w.chosen)
    /\ \A i \in 1..Len(Submitted(w)) : Submitted(w)[i].call = w.chosen[i]
    /\ w.step = "signal" => Len(Submitted(w)) = Len(w.chosen)

\* C29: an upload worker resolves or creates the destination folder at most
\* once and before any submission, then submits each chosen item exactly
\* once in the order of the result list, going on after a submission that
\* failed; the chosen items are all entries marked selected, or the
\* highlighted entry alone when none is marked.
C29_UploadInOrder ==
    [][/\ \A w \in upload_workers' :
            (\A v \in upload_workers : v.id # w.id)
            => /\ w.calls = << >>
               /\ w.chosen =
                    IF \E i \in 1..Len(results) : results[i].selected
                    THEN MagnetsOf(SelectSeq(results, LAMBDA r : r.selected))
                    ELSE <<results[selected_index + 1].magnet>>
       /\ \A w \in upload_workers' : WorkerOrderly(w)]_vars

\* a worker is about to signal: it created the folder, then submitted both
\* marked entries in list order, the first submission having failed, while
\* the second row was the highlighted one
C29_Witness ==
    /\ selected_index = 1
    /\ \E w \in upload_workers :
         /\ w.step = "signal"
         /\ w.chosen = <<"m2", "m1">>
         /\ w.calls = <<[call |-> "folder", ok |-> TRUE],
                        [call |-> "m2", ok |-> FALSE],
                        [call |-> "m1", ok |-> TRUE]>>
\* the index of the last row of the Filters panel
LastFilterRow == (3 + Len(available_indexers) + 4 + 2) - 1

\* the step leaves every filter setting but those of vs as it was
OnlySetting(vs) ==
    /\ "sort_by" \in vs \/ sort_by' = sort_by
    /\ "selected_indexers" \in vs \/ selected_indexers' = selected_indexers
    /\ "min_seeds" \in vs \/ min_seeds' = min_seeds
    /\ "filter_nsfw" \in vs \/ filter_nsfw' = filter_nsfw

\* C30: sort_cursor stays within 0..(3 + N + 4 + 2) - 1, N the number of
\* indexers offered; Up on row 0 and Down on the last row leave the cursor
\* and the focus as they are; activating a row with Space sets the sort
\* mode on rows 0-2, toggles an indexer on rows 3..3+N-1, sets the
\* minimum seeders on the next 4 rows and the adult filter on the last 2.
C30_FilterCursor ==
    [][LET n == Len(available_indexers)
           c == sort_cursor
       IN  /\ sort_cursor' \in 0..LastFilterRow
           /\ (Pressed("Up", "Filters") /\ c = 0)
              => sort_cursor' = 0 /\ active_panel' = "Filters"
           /\ (Pressed("Down", "Filters") /\ c = LastFilterRow)
              => sort_cursor' = LastFilterRow /\ active_panel' = "Filters"
           /\ (Pressed(" ", "Filters") /\ c \in 0..2)
              => sort_by' = <<"Seeders", "Size", "Name">>[c + 1] /\ OnlySetting({"sort_by"})
           /\ (Pressed(" ", "Filters") /\ c \in 3..(3 + n - 1))
              => LET name == available_indexers[c - 3 + 1] IN
                 /\ IF name = "all" THEN selected_indexers' = <<"all">>
                    ELSE Contains(selected_indexers', name) # Contains(selected_indexers, name)
                 /\ OnlySetting({"selected_indexers"})
           /\ (Pressed(" ", "Filters") /\ c \in (3 + n)..(3 + n + 3))
              => min_seeds' = <<0, 5, 10, 100>>[c - (3 + n) + 1] /\ OnlySetting({"min_seeds"})
           /\ (Pressed(" ", "Filters") /\ c \in (3 + n + 4)..(3 + n + 5))
              => filter_nsfw' = (c = 3 + n + 4) /\ OnlySetting({"filter_nsfw"})
           /\ Pressed(" ", "Filters") => sort_cursor' = c /\ active_panel' = "Filters"]_vars

\* Space on the last row has allowed adult content, and Down on the last
\* row has then left the cursor on it and the focus on Filters
C30_Witness ==
    /\ keys_handled = 3
    /\ last_key = [key |-> "Down", panel |-> "Filters"]
    /\ sort_cursor = LastFilterRow
    /\ active_panel = "Filters"
    /\ ~filter_nsfw
\* the step is the animation step of a frame that is an animation tick
Tick ==
    /\ pc = "animate" /\ pc' = "event"
    /\ frame_counter' # frame_counter
    /\ frame_counter' % 3 = 0

\* C31: the title scroll is bidirectional and bounded: the offset stays
\* within 0..20 and the direction is 1 or -1; on an animation tick with
\* results shown, a forward scroll rises by one and turns backward on
\* reaching 20, a backward scroll falls by one, and at 0 turns forward; no
\* step changes offset or direction while the result list is empty.
C31_TitleScrollBounded ==
    [][/\ title_scroll_offset' \in 0..20
       /\ title_scroll_direction' \in {1, -1}
       /\ (Tick /\ results # << >> /\ title_scroll_direction = 1)
          => /\ title_scroll_offset' = title_scroll_offset + 1
             /\ title_scroll_direction' = IF title_scroll_offset' = 20 THEN -1 ELSE 1
       /\ (Tick /\ results # << >> /\ title_scroll_direction = -1)
          => IF title_scroll_offset > 0
             THEN title_scroll_offset' = title_scroll_offset - 1
                  /\ title_scroll_direction' = -1
             ELSE title_scroll_offset' = 0 /\ title_scroll_direction' = 1
       /\ results = << >>
          => /\ title_scroll_offset' = title_scroll_offset
             /\ title_scroll_direction' = title_scroll_direction]_vars

\* the first frame was a tick that took a forward scroll from 19 to 20 and
\* turned it backward
C31_Witness ==
    /\ frames = 1
    /\ frame_counter = 3
    /\ results # << >>
    /\ title_scroll_offset = 20
    /\ title_scroll_direction = -1
\* C32: the status marquee advances by exactly one character on every
\* animation tick, whatever the focus, the job flags and the result list,
\* and by no other step; the animate flag is never false, so every frame
\* counts toward the next tick.
C32_MarqueeEveryTick ==
    [][/\ should_animate'
       /\ (pc = "animate" /\ pc' = "event")
          => frame_counter' = (frame_counter + 1) % 256
       /\ IF Tick
          THEN /\ marquee_cache'.chars = marquee_cache.chars
               /\ marquee_cache'.offset =
                    (marquee_cache.offset + 1) % Len(marquee_cache.chars)
          ELSE marquee_cache' = marquee_cache]_vars

\* the third frame has been a tick while a search was in flight, the result
\* list empty and the focus on the search bar
C32_Witness ==
    /\ pc = "event"
    /\ frames = 3 /\ frame_counter = 3
    /\ marquee_cache.offset = 1
    /\ searching /\ results = << >>
    /\ active_panel = "Search"
\* C33: for every terminal size the layout computation does not underflow:
\* every column position is at least 0 and the title width is
\* max(0, separator - (results_panel_x + 11)), zero on a terminal too
\* narrow for a title column.
C33_LayoutSaturates ==
    \A i \in 1..Len(layout_cache) :
      LET l == layout_cache[i]
          room == l.separator_column - ((RESULTS_X_OFFSET + MARGIN_X) + 11)
      IN  /\ l.size_column >= 0 /\ l.seeds_column >= 0
          /\ l.source_column >= 0 /\ l.separator_column >= 0
          /\ l.right_border_column >= 0
          /\ l.size_column <= l.terminal_width /\ l.seeds_column <= l.terminal_width
          /\ l.source_column <= l.terminal_width
          /\ l.title_width = IF room > 0 THEN room ELSE 0

\* the layout has been computed for a terminal of 40 columns: the columns
\* fit, the separator is at column 2 and no cell is left for the title
C33_Witness ==
    /\ pc = "event"
    /\ layout_cache # << >>
    /\ layout_cache[1].terminal_width = 40
    /\ layout_cache[1].size_column = 5
    /\ layout_cache[1].separator_column = 2
    /\ layout_cache[1].title_width = 0

\* C34: whenever the list is non-empty and a frame has just been drawn,
\* the highlighted row is one of the rows the frame shows:
\* scroll_offset <= selected_index < scroll_offset + R, R the number of
\* rows draw_results_panel draws at the terminal's height
C34_HighlightInWindow ==
    (pc = "event" /\ results # << >>)
        => /\ scroll_offset <= selected_index
           /\ selected_index < scroll_offset + DrawnRows(cached_height)

\* C35: scroll_offset never exceeds the length of the list, and on a
\* non-empty list selected_index is an index of it
C35_OffsetsInRange ==
    /\ scroll_offset <= Len(results)
    /\ results # << >> => selected_index < Len(results)

\* C36: the outcome the loop takes from the search mailbox is the outcome
\* of the search dispatched last, and whenever searching is false and no
\* search worker is running the mailbox is empty
C36_LatestSearchShown ==
    [][/\ (search_results # << >> /\ search_results' = << >>)
            => search_results[1].ticket = next_ticket - 1
       /\ (~searching' /\ search_workers' = {}) => search_results' = << >>]_vars

\* the worker of the upload dispatched last has written its completion
\* signal
LatestUploadSignalled ==
    /\ next_upload > 1
    /\ upload_log[next_upload - 1].writes > 0

\* C37: the loop marks the upload on display complete only after that
\* upload's own worker has signalled, and takes its banner down only
\* after that worker has signalled (so only by the timer started for it)
C37_BannerFollowsItsUpload ==
    [][/\ (~sending_complete /\ sending_complete') => LatestUploadSignalled
       /\ (sending_to_putio /\ ~sending_to_putio') => LatestUploadSignalled]_vars

\* C38: selected_indexers is never empty, names no source twice, names
\* only sources of available_indexers, and names "all" only as its sole
\* element
C38_IndexerSetWellFormed ==
    /\ selected_indexers # << >>
    /\ \A i, j \in 1..Len(selected_indexers) :
           selected_indexers[i] = selected_indexers[j] => i = j
    /\ \A i \in 1..Len(selected_indexers) :
           Contains(available_indexers, selected_indexers[i])
    /\ Contains(selected_indexers, "all") => selected_indexers = <<"all">>

\* a second specific source has been toggled on next to the first
C38_Witness ==
    /\ last_key = [key |-> " ", panel |-> "Filters"]
    /\ sort_cursor = 3 + 2
    /\ selected_indexers = <<"1337x", "EZTV">>

\* C39: at the size of every frame drawn, each of the frame's unsigned
\* differences (width - 2, content_height - STATUS_BAR_LINES - 2,
\* height + y_offset - STATUS_BAR_LINES - y and the others) is at least 0
C39_FrameNeverUnderflows ==
    (pc \in {"event", "panicked"} /\ layout_cache # << >>)
        => \A i \in 1..Len(FrameDifferences(cached_width, cached_height)) :
               FrameDifferences(cached_width, cached_height)[i] >= 0

\* the animation ticks since the loop was taken up: each tick advances the
\* marquee by one character of the banner, and fewer frames are followed
\* than the banner has characters
TicksSeen == marquee_cache.offset

\* C40: the animation ticks once every 3 frames, the wrap of the u8 frame
\* counter from 255 to 0 included: any run of n consecutive frames holds
\* no more than (n + 2) \div 3 ticks and no fewer than n \div 3
C40_TickEveryThirdFrame ==
    /\ 3 * TicksSeen <= frames + 2
    /\ frames <= 3 * TicksSeen + 2

====
